---- MODULE Spec2Model ----
(***************************************************************************)
(* Reconciliation workflow engine of record-linker: the task / candidate   *)
(* state machine (CandidateService, TaskService) and the project-level     *)
(* workflow operations (ProjectService), over the rows of the projects,    *)
(* dataset_entries, tasks and match_candidates tables.                     *)
(*                                                                         *)
(* Rows are records; a table with an autoincrement primary key is a        *)
(* sequence whose index is the id.  Every service method commits its own   *)
(* transaction; a request handler loads its rows (get_or_404) into a       *)
(* session of its own, mutates the loaded objects and commits: the unit of *)
(* work then UPDATEs only the columns whose value differs from the loaded  *)
(* one (Flush).                                                            *)
(***************************************************************************)
EXTENDS Integers, Sequences, FiniteSets, TLC

VARIABLES projects, entries, tasks, candidates, reqs, last

vars == <<projects, entries, tasks, candidates, reqs, last>>

----------------------------------------------------------------------------
(* Bounds of the model *)

NumProjects == 2
NumEntries == 3
MaxCands == 2
NumReqs == 2

(* Program constants *)

ChunkSizeDefault == 1000
ScoreMin == 0

NULL == -1
Stamp == 1

ProjectIds == 1..NumProjects
EntryIds == 1..NumEntries
ReqIds == 1..NumReqs

\* project i reconciles dataset i; all entries but the last belong to
\* dataset 1, the last one to dataset 2
ProjectDataset(p) == p
EntryDataset(e) == IF e < NumEntries THEN 1 ELSE 2

\* chunk sizes of start_project: the default and two that split the stream
ChunkSizes == {1, 2, ChunkSizeDefault}

TaskIds == 1..Len(tasks)
CandIds == 1..Len(candidates)

----------------------------------------------------------------------------
(* Helpers *)

RECURSIVE SetToSeq(_)
SetToSeq(S) ==
    IF S = {} THEN <<>>
    ELSE LET m == CHOOSE x \in S : \A y \in S : x <= y
         IN <<m>> \o SetToSeq(S \ {m})

SetMax(S) == IF S = {} THEN NULL ELSE CHOOSE x \in S : \A y \in S : y <= x

\* SoftDeleteMixin: deleted_at IS NULL
Live(row) == row.deleted_at = NULL

\* SoftDeleteMixin.soft_delete
soft_delete(row) == [row EXCEPT !.deleted_at = Stamp]

\* The unit of work's UPDATE at commit: of the loaded object's attributes,
\* only those whose current value differs from the loaded one are written.
Flush(row, loaded, current) ==
    [f \in DOMAIN row |-> IF current[f] # loaded[f] THEN current[f] ELSE row[f]]

\* A Task row with its column defaults, as inserted by start_project and
\* create_for_project
NewTask(id, p, e) ==
    [id |-> id, project_id |-> p, dataset_entry_id |-> e, status |-> "new",
     accepted_candidate_id |-> NULL, accepted_wikidata_id |-> NULL,
     candidate_count |-> 0, highest_score |-> NULL, reviewed_at |-> NULL,
     error_message |-> NULL, deleted_at |-> NULL]

\* A MatchCandidate row as inserted by create_for_task and create_bulk
NewCandidate(id, t, q, s) ==
    [id |-> id, task_id |-> t, wikidata_id |-> q, status |-> "suggested",
     score |-> s, reviewed_at |-> NULL, deleted_at |-> NULL]

\* the body of a statistics response before any was computed
NoStats ==
    [total_tasks |-> 0, completed |-> 0, progress_percent |-> 0,
     accepted |-> 0, avg_score |-> NULL]

\* no call of a matcher: its arguments and its result
NoMatch == [args |-> <<>>, result |-> <<>>]

NoLast ==
    [op |-> "none", p |-> NULL, t |-> NULL, c |-> NULL, cs |-> {}, sel |-> {},
     all |-> FALSE, patch |-> "unset", outcome |-> "none", ret |-> 0,
     stats |-> NoStats, match |-> NoMatch]

IdleReq ==
    [pc |-> "idle", op |-> "none", p |-> NULL, t |-> NULL, c |-> NULL,
     sel |-> {}, all |-> FALSE, project |-> NULL, task |-> NULL,
     candidate |-> NULL, inputs |-> <<>>, existing |-> {}, count |-> 0,
     max |-> NULL]

----------------------------------------------------------------------------
(* The tasks table's UNIQUE (project_id, dataset_entry_id): it covers every
   row, soft-deleted ones included. *)

uq_tasks_project_entry_off(rows, p, e) == TRUE

uq_tasks_project_entry(rows, p, e) ==
    \A i \in 1..Len(rows) :
        ~(rows[i].project_id = p /\ rows[i].dataset_entry_id = e)

\* the cap on task rows that keeps the model finite when the constraint is off
MaxTaskRows == NumProjects * NumEntries + 2

----------------------------------------------------------------------------
(* ProjectService.start_project *)

\* the selector check at the head of start_project
NoSelection_exactly_one(entry_uuids, all_entries) ==
    (entry_uuids = {}) = (~all_entries)

NoSelection(entry_uuids, all_entries) == entry_uuids = {} /\ ~all_entries

\* the entry_stmt query: ids of the live entries of the project's dataset,
\* restricted to entry_uuids unless all_entries is set
EntryStmt(ents, dataset_id, entry_uuids, all_entries) ==
    IF all_entries
    THEN {e \in EntryIds : ents[e].dataset_id = dataset_id /\ Live(ents[e])}
    ELSE {e \in EntryIds : e \in entry_uuids /\ ents[e].dataset_id = dataset_id
                           /\ Live(ents[e])}

\* the existing_stmt query: entry ids of the live tasks of the project
ExistingEntryIds_none(rows, p) == {}

ExistingEntryIds(rows, p) ==
    {rows[i].dataset_entry_id : i \in {j \in 1..Len(rows) :
        rows[j].project_id = p /\ Live(rows[j])}}

\* db.execute(insert(Task), batch): one multi-row INSERT; st.failed is the
\* IntegrityError of the uniqueness constraint
RECURSIVE InsertBatch(_, _, _)
InsertBatch(st, p, batch) ==
    IF batch = <<>> \/ st.failed THEN st
    ELSE LET e == Head(batch)
         IN IF uq_tasks_project_entry(st.rows, p, e)
            THEN InsertBatch(
                    [st EXCEPT !.rows = Append(@, NewTask(Len(@) + 1, p, e)),
                               !.tasks_created = @ + 1],
                    p, Tail(batch))
            ELSE [st EXCEPT !.failed = TRUE]

\* the flush test of the streaming loop
BatchFull_above(batch, chunk_size) == Len(batch) > chunk_size

BatchFull(batch, chunk_size) == Len(batch) >= chunk_size

\* the `async for entry_id in result` loop: st is the loop's state
\* (rows of the tasks table, batch, tasks_created, has_entries); st.sizes
\* lists the lengths of the batches handed to db.execute
RECURSIVE StreamLoop(_, _, _, _, _)
StreamLoop(stream, existing, chunk_size, p, st) ==
    IF stream = <<>> \/ st.failed THEN st
    ELSE LET e == Head(stream)
             s1 == [st EXCEPT !.has_entries = TRUE]
             s2 == IF e \notin existing
                   THEN [s1 EXCEPT !.batch = Append(@, e)]
                   ELSE s1
             s3 == IF e \notin existing /\ BatchFull(s2.batch, chunk_size)
                   THEN [InsertBatch(s2, p, s2.batch) EXCEPT
                            !.batch = <<>>,
                            !.sizes = Append(@, Len(s2.batch))]
                   ELSE s2
         IN StreamLoop(Tail(stream), existing, chunk_size, p, s3)

\* the guard before the status update
NoEntries_never(st) == FALSE

NoEntries(st) == ~st.has_entries

\* start_project from the selector check to the commit.  project is the
\* loaded Project, existing the result of existing_stmt.  The result is the
\* committed tables, the outcome and the returned count.
start_project(projs, ents, rows, project, p, entry_uuids, all_entries, chunk_size, existing) ==
    LET unchanged == [projects |-> projs, tasks |-> rows, ret |-> 0,
                      batches |-> <<>>]
    IN IF NoSelection(entry_uuids, all_entries)
       THEN unchanged @@ [outcome |-> "validation_error"]
       ELSE LET stream == SetToSeq(EntryStmt(ents, ProjectDataset(p),
                                             entry_uuids, all_entries))
                st0 == [rows |-> rows, batch |-> <<>>, tasks_created |-> 0,
                        has_entries |-> FALSE, failed |-> FALSE,
                        sizes |-> <<>>]
                st1 == StreamLoop(stream, existing, chunk_size, p, st0)
                st2 == IF st1.batch # <<>>
                       THEN [InsertBatch(st1, p, st1.batch) EXCEPT
                                !.sizes = Append(@, Len(st1.batch))]
                       ELSE st1
            IN IF st2.failed
               THEN unchanged @@ [outcome |-> "integrity_error"]
               ELSE IF NoEntries(st2)
               THEN unchanged @@ [outcome |-> "validation_error"]
               ELSE [projects |->
                        [projs EXCEPT ![p] = Flush(@, project,
                            [project EXCEPT !.status = "pending_search"])],
                     tasks |-> st2.rows,
                     ret |-> st2.tasks_created,
                     batches |-> st2.sizes,
                     outcome |-> "ok"]

----------------------------------------------------------------------------
(* TaskService.create_for_project *)

\* _get_by_project_and_entry
GetByProjectAndEntry(rows, p, e) ==
    {i \in 1..Len(rows) : rows[i].project_id = p
                          /\ rows[i].dataset_entry_id = e /\ Live(rows[i])}

\* create_for_project: existing is the result of _get_by_project_and_entry
create_for_project(rows, p, e, existing) ==
    IF existing # {}
    THEN [tasks |-> rows, outcome |-> "conflict"]
    ELSE IF ~uq_tasks_project_entry(rows, p, e)
    THEN [tasks |-> rows, outcome |-> "integrity_error"]
    ELSE [tasks |-> Append(rows, NewTask(Len(rows) + 1, p, e)),
          outcome |-> "ok"]

----------------------------------------------------------------------------
(* State after the fixtures: the projects in draft, the entries, no task *)

\* A Project row and a DatasetEntry row as inserted by their create methods
NewProject(p) ==
    [id |-> p, status |-> "draft", task_count |-> 0, deleted_at |-> NULL]
NewEntry(e) == [id |-> e, dataset_id |-> EntryDataset(e), deleted_at |-> NULL]

Init ==
    /\ projects = [p \in ProjectIds |-> NewProject(p)]
    /\ entries = [e \in EntryIds |-> NewEntry(e)]
    /\ tasks = <<>>
    /\ candidates = <<>>
    /\ reqs = [r \in ReqIds |-> IdleReq]
    /\ last = NoLast

----------------------------------------------------------------------------
(* Sequential workflow handlers: each request runs from get_or_404 to its
   commit with no other request in between *)

\* POST /projects/{uuid}/start
StartProject(p, sel, all, chunk) ==
    /\ Live(projects[p])
    /\ LET r == start_project(projects, entries, tasks, projects[p], p, sel,
                              all, chunk, ExistingEntryIds(tasks, p))
       IN /\ Len(r.tasks) <= MaxTaskRows
          /\ projects' = r.projects
          /\ tasks' = r.tasks
          /\ last' = [NoLast EXCEPT !.op = "start", !.p = p, !.sel = sel,
                                    !.all = all, !.outcome = r.outcome,
                                    !.ret = r.ret]
    /\ UNCHANGED <<entries, candidates, reqs>>

\* DELETE /datasets/{uuid}/entries/{uuid}
DeleteEntry(e) ==
    /\ Live(entries[e])
    /\ entries' = [entries EXCEPT ![e] = soft_delete(@)]
    /\ last' = [NoLast EXCEPT !.op = "delete_entry", !.sel = {e},
                              !.outcome = "ok"]
    /\ UNCHANGED <<projects, tasks, candidates, reqs>>

NextStart ==
    \/ \E p \in ProjectIds, sel \in SUBSET EntryIds, all \in BOOLEAN,
          chunk \in ChunkSizes : StartProject(p, sel, all, chunk)
    \/ \E e \in EntryIds : DeleteEntry(e)

SpecStart == Init /\ [][NextStart]_vars

----------------------------------------------------------------------------
(* CandidateService *)

\* the candidates a request body may carry
CandInputs ==
    {[wikidata_id |-> 1, score |-> ScoreMin], [wikidata_id |-> 2, score |-> 80]}

CandIdsOfTask(cands, t) ==
    {i \in 1..Len(cands) : cands[i].task_id = t /\ Live(cands[i])}

\* the count_stmt and max_stmt queries of _update_task_stats
CountStmt(cands, t) == Cardinality(CandIdsOfTask(cands, t))
MaxStmt(cands, t) == SetMax({cands[i].score : i \in CandIdsOfTask(cands, t)})

\* _update_task_stats: task is the loaded Task
update_task_stats(rows, task, count, max) ==
    [rows EXCEPT ![task.id] = Flush(@, task,
        [task EXCEPT !.candidate_count = count, !.highest_score = max])]

\* the inserts of create_bulk / create_for_task: one row per input, in order
RECURSIVE InsertCandidates(_, _, _)
InsertCandidates(cands, t, inputs) ==
    IF inputs = <<>> THEN cands
    ELSE InsertCandidates(
            Append(cands, NewCandidate(Len(cands) + 1, t,
                                       Head(inputs).wikidata_id,
                                       Head(inputs).score)),
            t, Tail(inputs))

\* the status precondition of accept_candidate and reject_candidate
CanReview_always(candidate) == TRUE

CanReview(candidate) == candidate.status = "suggested"

\* accept_candidate: the update of the candidate
AcceptCandidateFields(candidate) ==
    [candidate EXCEPT !.status = "accepted", !.reviewed_at = Stamp]

\* accept_candidate: the update of the task
AcceptTaskFields_later(task, candidate) == task

AcceptTaskFields(task, candidate) ==
    [task EXCEPT !.status = "reviewed",
                 !.accepted_wikidata_id = candidate.wikidata_id,
                 !.accepted_candidate_id = candidate.id,
                 !.reviewed_at = Stamp]

\* accept_candidate(candidate, task) on the loaded objects, up to its commit
accept_candidate(cands, rows, candidate, task) ==
    IF ~CanReview(candidate)
    THEN [candidates |-> cands, tasks |-> rows, outcome |-> "validation_error"]
    ELSE [candidates |-> [cands EXCEPT ![candidate.id] =
                             Flush(@, candidate, AcceptCandidateFields(candidate))],
          tasks |-> [rows EXCEPT ![task.id] =
                             Flush(@, task, AcceptTaskFields(task, candidate))],
          outcome |-> "ok"]

\* reject_candidate(candidate) on the loaded object, up to its commit
reject_candidate(cands, candidate) ==
    IF ~CanReview(candidate)
    THEN [candidates |-> cands, outcome |-> "validation_error"]
    ELSE [candidates |-> [cands EXCEPT ![candidate.id] =
                             Flush(@, candidate,
                                   [candidate EXCEPT !.status = "rejected",
                                                     !.reviewed_at = Stamp])],
          outcome |-> "ok"]

\* BaseService.update with a MatchCandidateUpdate: patch is the status it
\* carries, "unset" when the body leaves status out
update(cands, candidate, patch) ==
    IF patch = "unset" THEN cands
    ELSE [cands EXCEPT ![candidate.id] =
             Flush(@, candidate, [candidate EXCEPT !.status = patch])]

\* CandidateService.bulk_update: the single UPDATE ... WHERE uuid IN (...)
\* AND deleted_at IS NULL
bulk_update(cands, ids, patch) ==
    IF ids = {} \/ patch = "unset" THEN cands
    ELSE [i \in 1..Len(cands) |->
             IF i \in ids /\ Live(cands[i])
             THEN [cands[i] EXCEPT !.status = patch, !.reviewed_at = Stamp]
             ELSE cands[i]]

\* get_by_uuids
GetByUuids(cands, ids) == {i \in ids : i \in 1..Len(cands) /\ Live(cands[i])}

PatchStatuses == {"unset", "suggested", "accepted", "rejected"}

----------------------------------------------------------------------------
(* Sequential candidate handlers *)

\* POST /tasks/{uuid}/candidates
CreateCandidates(t, inputs) ==
    /\ t \in TaskIds /\ Live(tasks[t])
    /\ Len(candidates) + Len(inputs) <= MaxCands
    /\ LET cands == InsertCandidates(candidates, t, inputs)
       IN /\ candidates' = cands
          /\ tasks' = update_task_stats(tasks, tasks[t], CountStmt(cands, t),
                                        MaxStmt(cands, t))
    /\ last' = [NoLast EXCEPT !.op = "create_bulk", !.t = t, !.outcome = "ok",
                              !.ret = Len(inputs)]
    /\ UNCHANGED <<projects, entries, reqs>>

\* CandidateService.create_for_task
CreateForTask(t, input) ==
    /\ t \in TaskIds /\ Live(tasks[t])
    /\ Len(candidates) + 1 <= MaxCands
    /\ LET cands == InsertCandidates(candidates, t, <<input>>)
       IN /\ candidates' = cands
          /\ tasks' = update_task_stats(tasks, tasks[t], CountStmt(cands, t),
                                        MaxStmt(cands, t))
    /\ last' = [NoLast EXCEPT !.op = "create_for_task", !.t = t,
                              !.outcome = "ok", !.ret = 1]
    /\ UNCHANGED <<projects, entries, reqs>>

\* DELETE /tasks/{uuid}/candidates/{uuid}
DeleteCandidate(c) ==
    /\ \E t \in TaskIds : Live(tasks[t])
    /\ c \in CandIds /\ Live(candidates[c])
    /\ candidates' = [candidates EXCEPT ![c] = soft_delete(@)]
    /\ last' = [NoLast EXCEPT !.op = "delete_candidate", !.c = c,
                              !.outcome = "ok"]
    /\ UNCHANGED <<projects, entries, tasks, reqs>>

\* POST /tasks/{uuid}/candidates/{uuid}/accept
AcceptCandidate(t, c) ==
    /\ t \in TaskIds /\ Live(tasks[t])
    /\ c \in CandIds /\ Live(candidates[c])
    /\ LET r == accept_candidate(candidates, tasks, candidates[c], tasks[t])
       IN /\ candidates' = r.candidates
          /\ tasks' = r.tasks
          /\ last' = [NoLast EXCEPT !.op = "accept", !.t = t, !.c = c,
                                    !.outcome = r.outcome]
    /\ UNCHANGED <<projects, entries, reqs>>

\* POST /tasks/{uuid}/candidates/{uuid}/reject
RejectCandidate(c) ==
    /\ \E t \in TaskIds : Live(tasks[t])
    /\ c \in CandIds /\ Live(candidates[c])
    /\ LET r == reject_candidate(candidates, candidates[c])
       IN /\ candidates' = r.candidates
          /\ last' = [NoLast EXCEPT !.op = "reject", !.c = c,
                                    !.outcome = r.outcome]
    /\ UNCHANGED <<projects, entries, tasks, reqs>>

\* PATCH /tasks/{uuid}/candidates/{uuid}
UpdateCandidate(c, patch) ==
    /\ \E t \in TaskIds : Live(tasks[t])
    /\ c \in CandIds /\ Live(candidates[c])
    /\ candidates' = update(candidates, candidates[c], patch)
    /\ last' = [NoLast EXCEPT !.op = "update", !.c = c,
                              !.patch = patch, !.outcome = "ok"]
    /\ UNCHANGED <<projects, entries, tasks, reqs>>

\* PATCH /tasks/{uuid}/candidates/bulk; candidate_uuids is the list of the
\* request body, ids the set of its elements
BulkUpdateCandidates(candidate_uuids, patch) ==
    /\ \E t \in TaskIds : Live(tasks[t])
    /\ LET ids == {candidate_uuids[i] : i \in 1..Len(candidate_uuids)}
       IN IF Cardinality(GetByUuids(candidates, ids)) # Len(candidate_uuids)
          THEN /\ candidates' = candidates
               /\ last' = [NoLast EXCEPT !.op = "bulk_update",
                                         !.cs = ids, !.patch = patch,
                                         !.ret = Len(candidate_uuids),
                                         !.outcome = "not_found"]
          ELSE /\ candidates' = bulk_update(candidates, ids, patch)
               /\ last' = [NoLast EXCEPT !.op = "bulk_update",
                                         !.cs = ids, !.patch = patch,
                                         !.ret = Len(candidate_uuids),
                                         !.outcome = "ok"]
    /\ UNCHANGED <<projects, entries, tasks, reqs>>

\* State after start_project(all_entries=True) on project 1: one task per
\* entry of dataset 1, no candidate
Started ==
    start_project([p \in ProjectIds |-> NewProject(p)],
                  [e \in EntryIds |-> NewEntry(e)], <<>>, NewProject(1), 1,
                  {}, TRUE, ChunkSizeDefault, {})

InitReview ==
       /\ projects = Started.projects
       /\ entries = [e \in EntryIds |-> NewEntry(e)]
       /\ tasks = Started.tasks
       /\ candidates = <<>>
       /\ reqs = [q \in ReqIds |-> IdleReq]
       /\ last = NoLast

InputSeqs == {<<a>> : a \in CandInputs} \cup
             {<<a, b>> : a \in CandInputs, b \in CandInputs}

\* BulkCandidateUpdateRequest.candidate_uuids: lists of one or two ids
BulkIdLists == {<<a>> : a \in 1..MaxCands} \cup
               {<<a, b>> : a \in 1..MaxCands, b \in 1..MaxCands}

NextReview ==
    \/ \E t \in TaskIds, inputs \in InputSeqs : CreateCandidates(t, inputs)
    \/ \E t \in TaskIds, input \in CandInputs : CreateForTask(t, input)
    \/ \E c \in CandIds : DeleteCandidate(c)
    \/ \E t \in TaskIds, c \in CandIds : AcceptCandidate(t, c)
    \/ \E c \in CandIds : RejectCandidate(c)
    \/ \E c \in CandIds, patch \in PatchStatuses : UpdateCandidate(c, patch)
    \/ \E candidate_uuids \in BulkIdLists, patch \in PatchStatuses :
          BulkUpdateCandidates(candidate_uuids, patch)

SpecReview == InitReview /\ [][NextReview]_vars

----------------------------------------------------------------------------
(* Concurrent requests.  Each request runs in a session of its own; between
   two awaited statements of one request the other request may run and
   commit.  reqs[r] is the request's position (pc) and its loaded objects. *)

\* accept / reject handlers: get_or_404 of the task
ReviewLoadTask(r, op, t, c) ==
    /\ reqs[r].pc = "idle"
    /\ t \in TaskIds /\ Live(tasks[t])
    /\ c \in CandIds
    /\ reqs' = [reqs EXCEPT ![r] = [IdleReq EXCEPT !.pc = "task_loaded",
                                       !.op = op, !.t = t, !.c = c,
                                       !.task = tasks[t]]]
    /\ last' = [NoLast EXCEPT !.op = "load_task"]
    /\ UNCHANGED <<projects, entries, tasks, candidates>>

\* accept / reject handlers: get_or_404 of the candidate
ReviewLoadCandidate(r) ==
    /\ reqs[r].pc = "task_loaded"
    /\ Live(candidates[reqs[r].c])
    /\ reqs' = [reqs EXCEPT ![r].pc = "candidate_loaded",
                            ![r].candidate = candidates[reqs[r].c]]
    /\ last' = [NoLast EXCEPT !.op = "load_candidate"]
    /\ UNCHANGED <<projects, entries, tasks, candidates>>

\* accept_candidate / reject_candidate on the loaded objects
ReviewCommit(r) ==
    /\ reqs[r].pc = "candidate_loaded"
    /\ IF reqs[r].op = "accept"
       THEN LET x == accept_candidate(candidates, tasks, reqs[r].candidate,
                                      reqs[r].task)
            IN /\ candidates' = x.candidates
               /\ tasks' = x.tasks
               /\ last' = [NoLast EXCEPT !.op = "accept", !.t = reqs[r].t,
                                         !.c = reqs[r].c,
                                         !.outcome = x.outcome]
       ELSE LET x == reject_candidate(candidates, reqs[r].candidate)
            IN /\ candidates' = x.candidates
               /\ tasks' = tasks
               /\ last' = [NoLast EXCEPT !.op = "reject", !.c = reqs[r].c,
                                         !.outcome = x.outcome]
    /\ reqs' = [reqs EXCEPT ![r] = IdleReq]
    /\ UNCHANGED <<projects, entries>>

\* State after start_project(all_entries=True) on project 1 and one
\* create_bulk of two candidates on task 1
Reviewable ==
    LET cands == InsertCandidates(<<>>, 1,
                    <<[wikidata_id |-> 1, score |-> ScoreMin],
                      [wikidata_id |-> 2, score |-> 80]>>)
    IN [candidates |-> cands,
        tasks |-> update_task_stats(Started.tasks, Started.tasks[1],
                                    CountStmt(cands, 1), MaxStmt(cands, 1))]

InitReviewRace ==
    /\ projects = Started.projects
    /\ entries = [e \in EntryIds |-> NewEntry(e)]
    /\ tasks = Reviewable.tasks
    /\ candidates = Reviewable.candidates
    /\ reqs = [q \in ReqIds |-> IdleReq]
    /\ last = NoLast

NextReviewRace ==
    \/ \E r \in ReqIds, op \in {"accept", "reject"}, t \in TaskIds,
          c \in CandIds : ReviewLoadTask(r, op, t, c)
    \/ \E r \in ReqIds : ReviewLoadCandidate(r)
    \/ \E r \in ReqIds : ReviewCommit(r)

SpecReviewRace == InitReviewRace /\ [][NextReviewRace]_vars

\* create_candidates_bulk handler: get_or_404 of the task
CreateLoadTask(r, t, inputs) ==
    /\ reqs[r].pc = "idle"
    /\ t \in TaskIds /\ Live(tasks[t])
    /\ reqs' = [reqs EXCEPT ![r] = [IdleReq EXCEPT !.pc = "task_loaded",
                                       !.op = "create_bulk", !.t = t,
                                       !.task = tasks[t],
                                       !.inputs = inputs]]
    /\ last' = [NoLast EXCEPT !.op = "load_task"]
    /\ UNCHANGED <<projects, entries, tasks, candidates>>

\* create_bulk: the inserts and their commit
CreateInsert(r) ==
    /\ reqs[r].pc = "task_loaded" /\ reqs[r].op = "create_bulk"
    /\ Len(candidates) + Len(reqs[r].inputs) <= MaxCands
    /\ candidates' = InsertCandidates(candidates, reqs[r].t, reqs[r].inputs)
    /\ reqs' = [reqs EXCEPT ![r].pc = "inserted"]
    /\ last' = [NoLast EXCEPT !.op = "insert"]
    /\ UNCHANGED <<projects, entries, tasks>>

\* _update_task_stats: the count query
CreateCount(r) ==
    /\ reqs[r].pc = "inserted"
    /\ reqs' = [reqs EXCEPT ![r].pc = "counted",
                            ![r].count = CountStmt(candidates, reqs[r].t)]
    /\ last' = [NoLast EXCEPT !.op = "count"]
    /\ UNCHANGED <<projects, entries, tasks, candidates>>

\* _update_task_stats: the max query
CreateMax(r) ==
    /\ reqs[r].pc = "counted"
    /\ reqs' = [reqs EXCEPT ![r].pc = "maxed",
                            ![r].max = MaxStmt(candidates, reqs[r].t)]
    /\ last' = [NoLast EXCEPT !.op = "max"]
    /\ UNCHANGED <<projects, entries, tasks, candidates>>

\* _update_task_stats: the write of both values to the task and its commit
CreateWrite(r) ==
    /\ reqs[r].pc = "maxed"
    /\ tasks' = update_task_stats(tasks, reqs[r].task, reqs[r].count,
                                  reqs[r].max)
    /\ reqs' = [reqs EXCEPT ![r] = IdleReq]
    /\ last' = [NoLast EXCEPT !.op = "create_bulk", !.t = reqs[r].t,
                              !.outcome = "ok", !.ret = Len(reqs[r].inputs)]
    /\ UNCHANGED <<projects, entries, candidates>>

NextCreateRace ==
    \/ \E r \in ReqIds, t \in TaskIds, inputs \in InputSeqs :
          CreateLoadTask(r, t, inputs)
    \/ \E r \in ReqIds : CreateInsert(r)
    \/ \E r \in ReqIds : CreateCount(r)
    \/ \E r \in ReqIds : CreateMax(r)
    \/ \E r \in ReqIds : CreateWrite(r)

SpecCreateRace == InitReview /\ [][NextCreateRace]_vars

\* start_project handler: get_or_404 of the project
StartLoadProject(r, p, sel, all) ==
    /\ reqs[r].pc = "idle"
    /\ Live(projects[p])
    /\ reqs' = [reqs EXCEPT ![r] = [IdleReq EXCEPT !.pc = "project_loaded",
                                       !.op = "start", !.p = p, !.sel = sel,
                                       !.all = all,
                                       !.project = projects[p]]]
    /\ last' = [NoLast EXCEPT !.op = "load_project"]
    /\ UNCHANGED <<projects, entries, tasks, candidates>>

\* start_project: the existing_stmt query
StartReadExisting(r) ==
    /\ reqs[r].pc = "project_loaded"
    /\ reqs' = [reqs EXCEPT ![r].pc = "existing_read",
                            ![r].existing = ExistingEntryIds(tasks, reqs[r].p)]
    /\ last' = [NoLast EXCEPT !.op = "read_existing"]
    /\ UNCHANGED <<projects, entries, tasks, candidates>>

\* start_project: the stream of entries, the inserts, the status update and
\* the commit
StartCommit(r, chunk) ==
    /\ reqs[r].pc = "existing_read"
    /\ LET x == start_project(projects, entries, tasks, reqs[r].project,
                              reqs[r].p, reqs[r].sel, reqs[r].all, chunk,
                              reqs[r].existing)
       IN /\ Len(x.tasks) <= MaxTaskRows
          /\ projects' = x.projects
          /\ tasks' = x.tasks
          /\ last' = [NoLast EXCEPT !.op = "start", !.p = reqs[r].p,
                                    !.sel = reqs[r].sel, !.all = reqs[r].all,
                                    !.outcome = x.outcome, !.ret = x.ret]
    /\ reqs' = [reqs EXCEPT ![r] = IdleReq]
    /\ UNCHANGED <<entries, candidates>>

\* create_task handler up to the existence check of create_for_project
CreateTaskCheck(r, p, e) ==
    /\ reqs[r].pc = "idle"
    /\ Live(projects[p])
    /\ Live(entries[e])
    /\ reqs' = [reqs EXCEPT ![r] = [IdleReq EXCEPT !.pc = "task_checked",
                                       !.op = "create_task", !.p = p,
                                       !.sel = {e},
                                       !.existing =
                                           GetByProjectAndEntry(tasks, p, e)]]
    /\ last' = [NoLast EXCEPT !.op = "check_task"]
    /\ UNCHANGED <<projects, entries, tasks, candidates>>

\* create_for_project: the ConflictError, or the insert and its commit
CreateTaskCommit(r) ==
    /\ reqs[r].pc = "task_checked"
    /\ LET e == CHOOSE x \in reqs[r].sel : TRUE
           x == create_for_project(tasks, reqs[r].p, e, reqs[r].existing)
       IN /\ Len(x.tasks) <= MaxTaskRows
          /\ tasks' = x.tasks
          /\ last' = [NoLast EXCEPT !.op = "create_task", !.p = reqs[r].p,
                                    !.sel = {e}, !.outcome = x.outcome]
    /\ reqs' = [reqs EXCEPT ![r] = IdleReq]
    /\ UNCHANGED <<projects, entries, candidates>>

\* Selections of the concurrent requests
RaceSelections == {{}, {1}}
RaceEntries == {1}

NextStartRace ==
    \/ \E r \in ReqIds, p \in ProjectIds, sel \in RaceSelections,
          all \in BOOLEAN : StartLoadProject(r, p, sel, all)
    \/ \E r \in ReqIds : StartReadExisting(r)
    \/ \E r \in ReqIds, chunk \in ChunkSizes : StartCommit(r, chunk)
    \/ \E r \in ReqIds, p \in ProjectIds, e \in RaceEntries :
          CreateTaskCheck(r, p, e)
    \/ \E r \in ReqIds : CreateTaskCommit(r)

SpecStartRace == Init /\ [][NextStartRace]_vars

----------------------------------------------------------------------------
(* Task handlers and rerun_tasks *)

\* TaskUpdate bodies: model_dump(exclude_unset=True) keeps the fields given
TaskPatchStatuses ==
    {"failed", "no_candidates_found", "awaiting_review", "reviewed"}

TaskPatches ==
    {[fields |-> {"status"}, status |-> s, accepted_wikidata_id |-> NULL] :
        s \in TaskPatchStatuses}

\* BaseService.update on a loaded Task
update_task(rows, task, patch) ==
    [rows EXCEPT ![task.id] = Flush(@, task,
        [f \in DOMAIN task |->
            IF f \in patch.fields THEN patch[f] ELSE task[f]])]

\* TaskService.skip_task on a loaded Task
skip_task(rows, task) ==
    [rows EXCEPT ![task.id] = Flush(@, task, [task EXCEPT !.status = "skipped"])]

\* rerun_tasks: neither selector given
NoRerunSelection_exactly_one(criteria, task_uuids) ==
    (criteria = "") = (task_uuids = {})

NoRerunSelection(criteria, task_uuids) == criteria = "" /\ task_uuids = {}

RerunCriteria == {"failed", "no_candidates", "no_accepted"}

\* rerun_tasks: the condition appended for the selector
RerunCondition_no_status(task, criteria, task_uuids) ==
    IF task_uuids # {} THEN task.id \in task_uuids
    ELSE IF criteria = "failed" THEN task.status = "failed"
    ELSE IF criteria = "no_candidates"
         THEN task.status = "no_candidates_found"
    ELSE task.accepted_wikidata_id = NULL

RerunCondition(task, criteria, task_uuids) ==
    IF task_uuids # {} THEN task.id \in task_uuids
    ELSE IF criteria = "failed" THEN task.status = "failed"
    ELSE IF criteria = "no_candidates"
         THEN task.status = "no_candidates_found"
    ELSE /\ task.accepted_wikidata_id = NULL
         /\ task.status \in {"awaiting_review", "reviewed"}

\* rerun_tasks: the rows of the bulk UPDATE
RerunRows(rows, p, criteria, task_uuids) ==
    {i \in 1..Len(rows) : /\ rows[i].project_id = p
                          /\ Live(rows[i])
                          /\ RerunCondition(rows[i], criteria, task_uuids)}

\* rerun_tasks: the values of the bulk UPDATE
RerunValues(task) ==
    [task EXCEPT !.status = "new", !.accepted_wikidata_id = NULL,
                 !.accepted_candidate_id = NULL, !.error_message = NULL]

\* ProjectService.rerun_tasks; criteria "" is None or the empty string
rerun_tasks(rows, p, criteria, task_uuids) ==
    IF NoRerunSelection(criteria, task_uuids)
    THEN [tasks |-> rows, ret |-> 0, outcome |-> "validation_error"]
    ELSE IF task_uuids = {} /\ criteria \notin RerunCriteria
    THEN [tasks |-> rows, ret |-> 0, outcome |-> "validation_error"]
    ELSE LET hit == RerunRows(rows, p, criteria, task_uuids)
         IN [tasks |-> [i \in 1..Len(rows) |->
                           IF i \in hit THEN RerunValues(rows[i])
                           ELSE rows[i]],
             ret |-> Cardinality(hit),
             outcome |-> "ok"]

\* PATCH /projects/{uuid}/tasks/{uuid}
UpdateTask(p, t, patch) ==
    /\ Live(projects[p])
    /\ t \in TaskIds /\ Live(tasks[t])
    /\ tasks[t].project_id = p
    /\ tasks' = update_task(tasks, tasks[t], patch)
    /\ last' = [NoLast EXCEPT !.op = "update_task"]
    /\ UNCHANGED <<projects, entries, candidates, reqs>>

\* POST /projects/{uuid}/tasks/{uuid}/skip
SkipTask(p, t) ==
    /\ Live(projects[p])
    /\ t \in TaskIds /\ Live(tasks[t])
    /\ tasks[t].project_id = p
    /\ tasks' = skip_task(tasks, tasks[t])
    /\ last' = [NoLast EXCEPT !.op = "skip_task"]
    /\ UNCHANGED <<projects, entries, candidates, reqs>>

\* DELETE /projects/{uuid}/tasks/{uuid}
DeleteTask(p, t) ==
    /\ Live(projects[p])
    /\ t \in TaskIds /\ Live(tasks[t])
    /\ tasks[t].project_id = p
    /\ tasks' = [tasks EXCEPT ![t] = soft_delete(@)]
    /\ last' = [NoLast EXCEPT !.op = "delete_task"]
    /\ UNCHANGED <<projects, entries, candidates, reqs>>

\* POST /projects/{uuid}/rerun
RerunTasks(p, criteria, task_uuids) ==
    /\ Live(projects[p])
    /\ LET r == rerun_tasks(tasks, p, criteria, task_uuids)
       IN /\ tasks' = r.tasks
          /\ last' = [NoLast EXCEPT !.op = "rerun", !.p = p,
                                    !.patch = criteria, !.cs = task_uuids,
                                    !.outcome = r.outcome, !.ret = r.ret]
    /\ UNCHANGED <<projects, entries, candidates, reqs>>

\* State after start_project(all_entries=True) on every project that has
\* entries, and one create_bulk of one candidate on task 1
StartedAll ==
    LET e0 == [e \in EntryIds |-> NewEntry(e)]
    IN start_project(Started.projects, e0, Started.tasks, NewProject(2), 2,
                     {}, TRUE, ChunkSizeDefault, {})

WithCandidate ==
    LET cands == InsertCandidates(<<>>, 1,
                    <<[wikidata_id |-> 2, score |-> 80]>>)
    IN [candidates |-> cands,
        tasks |-> update_task_stats(StartedAll.tasks, StartedAll.tasks[1],
                                    CountStmt(cands, 1), MaxStmt(cands, 1))]

InitRerun ==
    /\ projects = StartedAll.projects
    /\ entries = [e \in EntryIds |-> NewEntry(e)]
    /\ tasks = WithCandidate.tasks
    /\ candidates = WithCandidate.candidates
    /\ reqs = [q \in ReqIds |-> IdleReq]
    /\ last = NoLast

\* criteria and task_uuids of the rerun requests
RerunCriteriaInputs == RerunCriteria \cup {"", "bogus"}
RerunIdInputs == {{}, {1}, {2, NumEntries}}

NextRerun ==
    \/ \E p \in ProjectIds, t \in TaskIds, patch \in TaskPatches :
          UpdateTask(p, t, patch)
    \/ \E p \in ProjectIds, t \in TaskIds : DeleteTask(p, t)
    \/ \E t \in TaskIds, c \in CandIds : AcceptCandidate(t, c)
    \/ \E p \in ProjectIds, criteria \in RerunCriteriaInputs,
          task_uuids \in RerunIdInputs : RerunTasks(p, criteria, task_uuids)

SpecRerun == InitRerun /\ [][NextRerun]_vars

----------------------------------------------------------------------------
(* get_stats.  Percentages and averages are kept in tenths: 333 is 33.3 *)

RECURSIVE SumScores(_, _)
SumScores(cands, S) ==
    IF S = {} THEN 0
    ELSE LET c == CHOOSE x \in S : TRUE
         IN cands[c].score + SumScores(cands, S \ {c})

\* round(num / den, 1) in tenths, ties to the even digit
RoundTenths(num, den) ==
    LET q == (10 * num) \div den
        r == (10 * num) % den
    IN IF 2 * r > den \/ (2 * r = den /\ q % 2 = 1) THEN q + 1 ELSE q

\* get_stats: the rows of task_stats_stmt
StatsTaskRows(rows, p) ==
    {i \in 1..Len(rows) : rows[i].project_id = p /\ Live(rows[i])}

\* get_stats: the rows of candidate_stats_stmt
StatsCandidateRows(cands, rows, p) ==
    {c \in 1..Len(cands) : /\ cands[c].task_id \in StatsTaskRows(rows, p)
                           /\ Live(cands[c])}

\* get_stats: completed_count
CompletedStatuses_with_auto == {"reviewed", "skipped", "auto_confirmed"}

CompletedStatuses == {"reviewed", "skipped"}

\* get_stats: progress_percent
ProgressPercent(completed, total) ==
    IF total > 0 THEN RoundTenths(completed * 100, total) ELSE 0

\* get_stats: func.avg over the accepted candidates is NULL without any
AvgStmt(cands, accepted) ==
    IF accepted = {} THEN [null |-> TRUE, sum |-> 0, n |-> 1]
    ELSE [null |-> FALSE, sum |-> SumScores(cands, accepted),
          n |-> Cardinality(accepted)]

\* get_stats: round(avg_score, 1) if avg_score else None
AvgScore(avg) ==
    IF ~avg.null /\ avg.sum # 0 THEN RoundTenths(avg.sum, avg.n) ELSE NULL

\* ProjectService.get_stats
get_stats(rows, cands, p) ==
    LET trows == StatsTaskRows(rows, p)
        crows == StatsCandidateRows(cands, rows, p)
        done == {t \in trows : rows[t].status \in CompletedStatuses}
        accepted == {c \in crows : cands[c].status = "accepted"}
    IN [total_tasks |-> Cardinality(trows),
        completed |-> Cardinality(done),
        progress_percent |->
            ProgressPercent(Cardinality(done), Cardinality(trows)),
        accepted |-> Cardinality(accepted),
        avg_score |-> AvgScore(AvgStmt(cands, accepted))]

\* GET /projects/{uuid}/stats
GetStats(p) ==
    /\ Live(projects[p])
    /\ last' = [NoLast EXCEPT !.op = "stats", !.p = p, !.outcome = "ok",
                              !.stats = get_stats(tasks, candidates, p)]
    /\ UNCHANGED <<projects, entries, tasks, candidates, reqs>>

\* POST /projects/{uuid}/tasks
CreateTask(p, e) ==
    /\ Live(projects[p])
    /\ Live(entries[e])
    /\ LET r == create_for_project(tasks, p, e,
                                   GetByProjectAndEntry(tasks, p, e))
       IN /\ Len(r.tasks) <= MaxTaskRows
          /\ tasks' = r.tasks
          /\ last' = [NoLast EXCEPT !.op = "create_task", !.p = p,
                                    !.sel = {e}, !.outcome = r.outcome]
    /\ UNCHANGED <<projects, entries, candidates, reqs>>

\* statuses the task PATCH sets before statistics are read
StatsTaskPatches ==
    {[fields |-> {"status"}, status |-> s, accepted_wikidata_id |-> NULL] :
        s \in {"reviewed", "auto_confirmed", "knowledge_based"}}

NextProgress ==
    \/ \E p \in ProjectIds, t \in TaskIds, patch \in StatsTaskPatches :
          UpdateTask(p, t, patch)
    \/ \E p \in ProjectIds, t \in TaskIds : SkipTask(p, t)
    \/ \E p \in ProjectIds, t \in TaskIds : DeleteTask(p, t)
    \/ \E e \in EntryIds : CreateTask(1, e)
    \/ \E p \in ProjectIds : GetStats(p)

SpecProgress == InitRerun /\ [][NextProgress]_vars

InitAvg ==
    /\ projects = StartedAll.projects
    /\ entries = [e \in EntryIds |-> NewEntry(e)]
    /\ tasks = StartedAll.tasks
    /\ candidates = <<>>
    /\ reqs = [q \in ReqIds |-> IdleReq]
    /\ last = NoLast

NextAvg ==
    \/ \E t \in TaskIds, inputs \in InputSeqs : CreateCandidates(t, inputs)
    \/ \E t \in TaskIds, c \in CandIds : AcceptCandidate(t, c)
    \/ \E c \in CandIds : DeleteCandidate(c)
    \/ \E p \in ProjectIds, t \in TaskIds : DeleteTask(p, t)
    \/ \E p \in ProjectIds : GetStats(p)

SpecAvg == InitAvg /\ [][NextAvg]_vars

----------------------------------------------------------------------------
(* Project soft delete *)

\* ProjectService.soft_delete: task_ids_stmt
ProjectTaskIds(rows, p) ==
    {i \in 1..Len(rows) : rows[i].project_id = p /\ Live(rows[i])}

\* ProjectService.soft_delete: the rows of candidates_stmt over task_ids
ProjectCandidateIds_none(cands, task_ids) == {}

ProjectCandidateIds(cands, task_ids) ==
    {c \in 1..Len(cands) : cands[c].task_id \in task_ids /\ Live(cands[c])}

\* ProjectService.soft_delete: project is the loaded Project
soft_delete_project(projs, rows, cands, project) ==
    LET task_ids == ProjectTaskIds(rows, project.id)
        cand_ids == ProjectCandidateIds(cands, task_ids)
    IN [projects |-> [projs EXCEPT ![project.id] =
                         Flush(@, project, soft_delete(project))],
        tasks |-> [i \in 1..Len(rows) |->
                      IF i \in task_ids THEN soft_delete(rows[i])
                      ELSE rows[i]],
        candidates |-> [c \in 1..Len(cands) |->
                           IF c \in cand_ids THEN soft_delete(cands[c])
                           ELSE cands[c]]]

\* DELETE /projects/{uuid}
DeleteProject(p) ==
    /\ Live(projects[p])
    /\ LET r == soft_delete_project(projects, tasks, candidates, projects[p])
       IN /\ projects' = r.projects
          /\ tasks' = r.tasks
          /\ candidates' = r.candidates
    /\ last' = [NoLast EXCEPT !.op = "delete_project", !.p = p,
                              !.outcome = "ok"]
    /\ UNCHANGED <<entries, reqs>>

NextDelete ==
    \/ \E t \in TaskIds, inputs \in InputSeqs : CreateCandidates(t, inputs)
    \/ \E c \in CandIds : DeleteCandidate(c)
    \/ \E p \in ProjectIds, t \in TaskIds : DeleteTask(p, t)
    \/ \E p \in ProjectIds : DeleteProject(p)

SpecDelete == InitAvg /\ [][NextDelete]_vars

----------------------------------------------------------------------------
(* DateMatcher.  A value is None, a date, a datetime or a string; a date is
   a year and a day of the year, a datetime adds the hour of the day, a
   string has a form and the date its digits denote. *)

\* MatchingSettings defaults
DateExactScore == 100
DateYearOnlyScore == 80
DateToleranceDays == 3
PointsPerDay == 5
DaysPerYear == 365
HoursPerDay == 24

None == [kind |-> "none", form |-> "", y |-> 0, doy |-> 0, h |-> 0]
Date(y, doy) == [kind |-> "date", form |-> "", y |-> y, doy |-> doy, h |-> 0]
DateTime(y, doy, h) ==
    [kind |-> "datetime", form |-> "", y |-> y, doy |-> doy, h |-> h]
Str(form, y, doy) ==
    [kind |-> "str", form |-> form, y |-> y, doy |-> doy, h |-> 0]

\* _parse_date: a datetime is an instance of date and is returned as it is
ParseDate(value) ==
    IF value.kind \in {"date", "datetime"} THEN value
    ELSE IF value.kind = "str" /\ value.form \in {"ymd", "wikidata"}
         THEN Date(value.y, value.doy)
    ELSE IF value.kind = "str" /\ value.form = "year" THEN Date(value.y, 1)
    ELSE None

Ordinal(d) == d.y * DaysPerYear + d.doy

Abs(n) == IF n < 0 THEN -n ELSE n

\* abs((entry_parsed - wikidata_parsed).days): timedelta.days is the floor
DiffDays(a, b) ==
    IF a.kind = "date" THEN Abs(Ordinal(a) - Ordinal(b))
    ELSE Abs(((Ordinal(a) - Ordinal(b)) * HoursPerDay + a.h - b.h)
                \div HoursPerDay)

Max(a, b) == IF a >= b THEN a ELSE b

\* the close branch of compare
CloseScore_unfloored(diff_days) == DateExactScore - diff_days * PointsPerDay

CloseScore(diff_days) ==
    Max(DateExactScore - diff_days * PointsPerDay, DateYearOnlyScore)

DateResult(score, key, text, diff) ==
    [outcome |-> "ok", score |-> score, key |-> key, text |-> text,
     diff_days |-> diff]

\* DateMatcher.compare; the subtraction of a date and a datetime raises
\* TypeError
date_compare(entry_date, wikidata_date, tolerance) ==
    IF entry_date.kind = "none" \/ wikidata_date.kind = "none"
    THEN DateResult(0, "reason", "missing_date", 0)
    ELSE LET a == ParseDate(entry_date)
             b == ParseDate(wikidata_date)
         IN IF a.kind = "none" \/ b.kind = "none"
            THEN DateResult(0, "reason", "invalid_date_format", 0)
            ELSE IF a = b
            THEN DateResult(DateExactScore, "matched", "exact", 0)
            ELSE IF a.kind # b.kind
            THEN [DateResult(0, "raised", "TypeError", 0)
                     EXCEPT !.outcome = "raise"]
            ELSE IF DiffDays(a, b) <= tolerance
            THEN DateResult(CloseScore(DiffDays(a, b)), "matched", "close",
                            DiffDays(a, b))
            ELSE IF a.y = b.y
            THEN DateResult(DateYearOnlyScore, "matched", "year_only", 0)
            ELSE DateResult(0, "matched", "none", 0)

\* the years, days and hours of the values compared
DateYears == {1950, 1951}
DateDays == {1, 2, 4, 9, DaysPerYear}
DateValues ==
    {None}
    \cup {Date(y, d) : y \in DateYears, d \in DateDays}
    \cup {DateTime(1951, 1, h) : h \in {0, 10}}
    \cup {Str(f, 1951, d) : f \in {"ymd", "wikidata", "year"}, d \in {1, 2}}
    \cup {Str("unparsable", 0, 0), Str("empty", 0, 0)}

\* date_tolerance_days: the default and a setting that reaches the floor
Tolerances == {DateToleranceDays, 8}

\* get_date_matcher().compare(entry_date, wikidata_date)
DateCompare(entry_date, wikidata_date, tolerance) ==
    /\ last' = [NoLast EXCEPT
                   !.op = "date_compare",
                   !.match = [args |-> <<entry_date, wikidata_date, tolerance>>,
                              result |-> date_compare(entry_date,
                                                      wikidata_date,
                                                      tolerance)]]
    /\ UNCHANGED <<projects, entries, tasks, candidates, reqs>>

NextDate ==
    \E a \in DateValues, b \in DateValues, tolerance \in Tolerances :
        DateCompare(a, b, tolerance)

SpecDate == Init /\ [][NextDate]_vars

----------------------------------------------------------------------------
(* ScoreCalculator.  Weights are kept in tenths: 5 is 0.5 *)

\* MatchingSettings defaults
AutoAcceptThreshold == 95
HighConfidenceThreshold == 80
LowConfidenceThreshold == 50
NameFuzzyThreshold == 70
NameWeight == 5
DateWeight == 3

\* int(round(num / den)): half up
RoundHalfUp(num, den) ==
    LET q == num \div den
        r == num % den
    IN IF 2 * r >= den THEN q + 1 ELSE q

\* int(round(num / den)): ties go to the even integer
RoundHalfEven(num, den) ==
    LET q == num \div den
        r == num % den
    IN IF 2 * r > den \/ (2 * r = den /\ q % 2 = 1) THEN q + 1 ELSE q

\* truth value of a dob: None and the empty string are false
Truthy(value) ==
    ~(value.kind = "none" \/ (value.kind = "str" /\ value.form = "empty"))

RECURSIVE SumWeights(_)
SumWeights(scores) ==
    IF scores = <<>> THEN 0
    ELSE Head(scores).weight + SumWeights(Tail(scores))

RECURSIVE SumWeighted(_)
SumWeighted(scores) ==
    IF scores = <<>> THEN 0
    ELSE Head(scores).score * Head(scores).weight + SumWeighted(Tail(scores))

\* _determine_confidence
determine_confidence_by_score(score, matched_fields) ==
    IF score >= HighConfidenceThreshold THEN "high"
    ELSE IF score >= LowConfidenceThreshold THEN "medium"
    ELSE "low"

determine_confidence(score, matched_fields) ==
    IF score >= AutoAcceptThreshold THEN "high"
    ELSE IF score >= HighConfidenceThreshold
         THEN IF Len(matched_fields) >= 2 THEN "high" ELSE "medium"
    ELSE IF score >= LowConfidenceThreshold THEN "medium"
    ELSE "low"

\* ScoreCalculator.calculate: has_name is `entry_name and wikidata_label`,
\* name_score the score NameMatcher.compare returns for them
calculate(has_name, name_score, entry_dob, wikidata_dob, name_weight, date_weight) ==
    LET names == IF has_name
                 THEN <<[type |-> "name", score |-> name_score,
                         weight |-> name_weight]>>
                 ELSE <<>>
        has_dob == Truthy(entry_dob) \/ Truthy(wikidata_dob)
        date_score == date_compare(entry_dob, wikidata_dob, DateToleranceDays)
        dates == IF has_dob
                 THEN <<[type |-> "date", score |-> date_score.score,
                         weight |-> date_weight]>>
                 ELSE <<>>
        scores == names \o dates
        matched_fields ==
            (IF has_name /\ name_score >= NameFuzzyThreshold
             THEN <<"name">> ELSE <<>>)
            \o (IF has_dob /\ date_score.score > 0 THEN <<"dob">> ELSE <<>>)
        total_weight == SumWeights(scores)
        total_score == IF total_weight = 0 THEN 0
                       ELSE RoundHalfEven(SumWeighted(scores), total_weight)
    IN IF has_dob /\ date_score.outcome = "raise"
       THEN [outcome |-> "raise", total_score |-> 0, scores |-> <<>>,
             confidence |-> "none", matched_fields |-> <<>>]
       ELSE IF scores = <<>>
       THEN [outcome |-> "ok", total_score |-> 0, scores |-> scores,
             confidence |-> "none", matched_fields |-> matched_fields]
       ELSE [outcome |-> "ok", total_score |-> total_score,
             scores |-> scores,
             confidence |-> determine_confidence(total_score, matched_fields),
             matched_fields |-> matched_fields]

\* scores of NameMatcher.compare, dates of birth and weights of the calls
NameScores == {0, 4, 12, 69, NameFuzzyThreshold, 92, 100}
EntryDobs ==
    {None, Str("empty", 0, 0), Str("unparsable", 0, 0), Date(1950, 4),
     Date(1951, 9), Date(1951, 4), Date(1951, 2), Date(1951, 1)}
WikidataDobs == {None, Str("wikidata", 1951, 1)}
NameWeights == {0, NameWeight}
DateWeights == {0, DateWeight}

\* get_score_calculator().calculate(entry_data, wikidata_entity)
Calculate(has_name, name_score, entry_dob, wikidata_dob, name_weight, date_weight) ==
    /\ last' = [NoLast EXCEPT
                   !.op = "calculate",
                   !.match = [args |-> <<has_name, name_score, entry_dob,
                                         wikidata_dob, name_weight,
                                         date_weight>>,
                              result |-> calculate(has_name, name_score,
                                                   entry_dob, wikidata_dob,
                                                   name_weight, date_weight)]]
    /\ UNCHANGED <<projects, entries, tasks, candidates, reqs>>

NextScore ==
    \E has_name \in BOOLEAN, name_score \in NameScores,
       entry_dob \in EntryDobs, wikidata_dob \in WikidataDobs,
       name_weight \in NameWeights, date_weight \in DateWeights :
        Calculate(has_name, name_score, entry_dob, wikidata_dob,
                  name_weight, date_weight)

SpecScore == Init /\ [][NextScore]_vars

----------------------------------------------------------------------------
(* ScoreCalculator._extract_wikidata_date.  An entity is the JSON shape of
   the values along claims[P569][0].mainsnak.datavalue.value and the value
   stored under time *)

\* positions of the path in the shape
AtClaims == 1
AtProperty == 2
AtFirst == 3
AtMainsnak == 4
AtDatavalue == 5
AtValue == 6

JsonKinds == {"missing", "null", "map", "list", "empty_list", "str", "int"}

\* a key that is missing makes .get return its default, an empty dict
GetDefault(kind) == IF kind = "missing" THEN "map" ELSE kind

\* x.get(...) exists on a dict only
HasGet(kind) == kind = "map"

\* `not prop_claims`: a missing key gives the default [], which is false
\* like None and the empty list
NoPropClaims(kind) == kind \in {"missing", "null", "empty_list"}

\* prop_claims[0]: a dict has no key 0 (KeyError) and an int cannot be
\* subscripted (TypeError), both caught; a str gives its first character
FirstClaim(entity) ==
    CASE entity.shape[AtProperty] = "list" -> entity.shape[AtFirst]
      [] entity.shape[AtProperty] = "str" -> "str"
      [] OTHER -> "caught"

_extract_wikidata_date(entity) ==
    LET claims == GetDefault(entity.shape[AtClaims])
        prop_claims == IF entity.shape[AtClaims] = "missing" THEN "missing"
                       ELSE entity.shape[AtProperty]
        first == FirstClaim(entity)
        mainsnak == GetDefault(entity.shape[AtMainsnak])
        datavalue == GetDefault(entity.shape[AtDatavalue])
        value == GetDefault(entity.shape[AtValue])
        raise == [outcome |-> "raise", value |-> None]
        none == [outcome |-> "ok", value |-> None]
    IN IF ~HasGet(claims) THEN raise
       ELSE IF NoPropClaims(prop_claims) THEN none
       ELSE IF first = "caught" THEN none
       ELSE IF ~HasGet(first) THEN raise
       ELSE IF ~HasGet(mainsnak) THEN raise
       ELSE IF ~HasGet(datavalue) THEN raise
       ELSE IF value = "map" THEN [outcome |-> "ok", value |-> entity.time]
       ELSE none

\* calculate on an entity: the birth date comes from claims P569
calculate_entity(has_name, name_score, entry_dob, entity, name_weight, date_weight) ==
    LET wikidata_dob == _extract_wikidata_date(entity)
    IN IF wikidata_dob.outcome = "raise"
       THEN [outcome |-> "raise", total_score |-> 0, scores |-> <<>>,
             confidence |-> "none", matched_fields |-> <<>>]
       ELSE calculate(has_name, name_score, entry_dob, wikidata_dob.value,
                      name_weight, date_weight)

\* the entity whose path is well formed, with a time or without
WellFormed(time) ==
    [shape |-> <<"map", "list", "map", "map", "map", "map">>, time |-> time]

\* well formed above position at, of the given kind there, nothing below
Malformed(at, kind) ==
    [shape |-> [i \in 1..AtValue |->
                   IF i < at THEN WellFormed(None).shape[i]
                   ELSE IF i = at THEN kind ELSE "missing"],
     time |-> None]

Entities ==
    {WellFormed(Str("wikidata", 1951, 1)), WellFormed(None)}
    \cup {Malformed(at, kind) :
            at \in {AtClaims, AtMainsnak, AtDatavalue, AtValue},
            kind \in JsonKinds \ {"empty_list"}}
    \cup {Malformed(AtProperty, kind) : kind \in JsonKinds}
    \cup {Malformed(AtFirst, kind) : kind \in JsonKinds \ {"missing", "empty_list"}}

\* get_score_calculator().calculate(entry_data, wikidata_entity)
CalculateEntity(has_name, name_score, entry_dob, entity) ==
    /\ last' = [NoLast EXCEPT
                   !.op = "calculate_entity",
                   !.match = [args |-> <<has_name, name_score, entry_dob,
                                         entity>>,
                              result |-> calculate_entity(has_name, name_score,
                                                          entry_dob, entity,
                                                          NameWeight,
                                                          DateWeight)]]
    /\ UNCHANGED <<projects, entries, tasks, candidates, reqs>>

NextExtract ==
    \E has_name \in BOOLEAN, name_score \in {69, 100},
       entry_dob \in {None, Date(1951, 1), Date(1951, 2)},
       entity \in Entities :
        CalculateEntity(has_name, name_score, entry_dob, entity)

SpecExtract == Init /\ [][NextExtract]_vars

----------------------------------------------------------------------------
(* start_project with a chunk_size argument, on a dataset whose entries
   outnumber the chunk *)

\* ProjectService.start_project called with chunk_size; the lengths of the
\* batches it inserted are kept with the call
StartChunked(p, sel, all, chunk) ==
    /\ Live(projects[p])
    /\ LET r == start_project(projects, entries, tasks, projects[p], p, sel,
                              all, chunk, ExistingEntryIds(tasks, p))
       IN /\ Len(r.tasks) <= MaxTaskRows
          /\ projects' = r.projects
          /\ tasks' = r.tasks
          /\ last' = [NoLast EXCEPT !.op = "start", !.p = p, !.sel = sel,
                                    !.all = all, !.outcome = r.outcome,
                                    !.ret = r.ret,
                                    !.match = [args |-> <<chunk>>,
                                               result |-> r.batches]]
    /\ UNCHANGED <<entries, candidates, reqs>>

\* every entry belongs to the dataset of project 1
InitChunk ==
    /\ projects = [p \in ProjectIds |-> NewProject(p)]
    /\ entries = [e \in EntryIds |-> [NewEntry(e) EXCEPT !.dataset_id = 1]]
    /\ tasks = <<>>
    /\ candidates = <<>>
    /\ reqs = [r \in ReqIds |-> IdleReq]
    /\ last = NoLast

\* chunk sizes below, at and above the number of entries
ChunkSizesAround == ChunkSizes \cup {NumEntries}

\* selections of no, one, two and all entries
ChunkSelections == {{}, {2}, {1, NumEntries}, EntryIds}

NextChunk ==
    \/ \E sel \in ChunkSelections, all \in BOOLEAN,
          chunk \in ChunkSizesAround : StartChunked(1, sel, all, chunk)
    \/ \E e \in EntryIds : CreateTask(1, e)
    \/ \E t \in TaskIds : DeleteTask(1, t)
    \/ \E e \in EntryIds : DeleteEntry(e)

SpecChunk == InitChunk /\ [][NextChunk]_vars

----------------------------------------------------------------------------
(* Project status: PATCH /projects/{uuid} and start_project *)

\* ProjectStatus
ProjectStatuses ==
    {"draft", "active", "pending_search", "search_in_progress",
     "search_completed", "pending_processing", "processing",
     "processing_failed", "review_ready", "completed", "archived"}

\* the state machine of the ProjectStatus docstring
ProjectTransitions ==
    {<<"draft", "active">>, <<"active", "pending_search">>,
     <<"pending_search", "search_in_progress">>,
     <<"search_in_progress", "search_completed">>,
     <<"search_completed", "pending_processing">>,
     <<"pending_processing", "processing">>,
     <<"processing", "review_ready">>,
     <<"processing", "processing_failed">>,
     <<"processing_failed", "processing">>,
     <<"review_ready", "completed">>}
    \cup {<<s, "archived">> : s \in ProjectStatuses}

\* BaseService.update with a ProjectUpdate that sets status: setattr per
\* field that was sent, no check against the current status
update_project(project, status) == [project EXCEPT !.status = status]

\* PATCH /projects/{uuid} with {"status": status}
UpdateProject(p, status) ==
    /\ Live(projects[p])
    /\ projects' = [projects EXCEPT
                       ![p] = Flush(@, projects[p],
                                    update_project(projects[p], status))]
    /\ last' = [NoLast EXCEPT !.op = "update_project", !.p = p,
                              !.patch = status, !.outcome = "ok"]
    /\ UNCHANGED <<entries, tasks, candidates, reqs>>

NextLifecycle ==
    \/ \E p \in ProjectIds, status \in ProjectStatuses :
          UpdateProject(p, status)
    \/ \E p \in ProjectIds, all \in BOOLEAN :
          StartProject(p, {}, all, ChunkSizeDefault)

SpecLifecycle == Init /\ [][NextLifecycle]_vars

----------------------------------------------------------------------------
(* NameMatcher.  A str is a sequence of characters; NoStr is None *)

NameExactScore == 100

NoStr == [null |-> TRUE, chars |-> <<>>]
StrOf(chars) == [null |-> FALSE, chars |-> chars]

\* truth value of a str | None: None and '' are false
NonEmpty(s) == ~s.null /\ s.chars # <<>>

\* str.lower on the characters of the model
Lower(ch) == IF ch = "A" THEN "a" ELSE ch

\* str.strip: leading and trailing blanks removed
RECURSIVE LStrip(_)
LStrip(chars) ==
    IF chars # <<>> /\ Head(chars) = " " THEN LStrip(Tail(chars)) ELSE chars

RECURSIVE RStrip(_)
RStrip(chars) ==
    IF chars # <<>> /\ chars[Len(chars)] = " "
    THEN RStrip(SubSeq(chars, 1, Len(chars) - 1))
    ELSE chars

\* _normalize: name.strip().lower()
Normalize(chars) ==
    LET stripped == RStrip(LStrip(chars))
    IN [i \in 1..Len(stripped) |-> Lower(stripped[i])]

\* the test that lets an alias replace the best match so far
AliasBetter_or_equal(alias_score, best_score) == alias_score >= best_score

AliasBetter(alias_score, best_score) == alias_score > best_score

NameResult(score, matched, against, alias) ==
    [score |-> score, weight |-> NameWeight, matched |-> matched,
     against |-> against, alias |-> alias]

\* the `for alias in aliases` loop; fuzzy[s] is _best_fuzzy_score of the
\* normalized entry name against the normalized string s
RECURSIVE AliasLoop(_, _, _, _, _)
AliasLoop(entry_normalized, aliases, fuzzy, best_score, best_match) ==
    IF aliases = <<>>
    THEN IF best_match = <<>>
         THEN NameResult(best_score, "fuzzy", "label", <<>>)
         ELSE NameResult(best_score, "fuzzy", "alias", best_match[1])
    ELSE LET alias == Head(aliases)
             alias_normalized == Normalize(alias)
             alias_score == fuzzy[alias_normalized]
         IN IF entry_normalized = alias_normalized
            THEN NameResult(NameExactScore, "exact", "alias", alias)
            ELSE IF AliasBetter(alias_score, best_score)
            THEN AliasLoop(entry_normalized, Tail(aliases), fuzzy,
                           alias_score, <<alias>>)
            ELSE AliasLoop(entry_normalized, Tail(aliases), fuzzy,
                           best_score, best_match)

\* NameMatcher.compare; aliases is a list of character sequences, or None
name_compare(entry_name, wikidata_label, aliases, fuzzy) ==
    IF ~NonEmpty(entry_name) \/ ~NonEmpty(wikidata_label)
    THEN NameResult(0, "missing_name", "none", <<>>)
    ELSE LET entry_normalized == Normalize(entry_name.chars)
             label_normalized == Normalize(wikidata_label.chars)
         IN IF entry_normalized = label_normalized
            THEN NameResult(NameExactScore, "exact", "label", <<>>)
            ELSE AliasLoop(entry_normalized,
                           IF aliases.null THEN <<>> ELSE aliases.items,
                           fuzzy, fuzzy[label_normalized], <<>>)

\* names, labels and alias lists of the calls
EntryNames ==
    {NoStr, StrOf(<<>>), StrOf(<<"a">>), StrOf(<<" ", "A">>), StrOf(<<"b">>)}
Labels ==
    {NoStr, StrOf(<<>>), StrOf(<<"A", " ">>), StrOf(<<"b">>)}
AliasStrings == {<<"a", " ">>, <<"b">>, <<"c">>, <<"d">>}
AliasLists ==
    {[null |-> TRUE, items |-> <<>>], [null |-> FALSE, items |-> <<>>]}
    \cup {[null |-> FALSE, items |-> <<x>>] : x \in AliasStrings}
    \cup {[null |-> FALSE, items |-> <<<<"c">>, y>>] : y \in AliasStrings}
    \cup {[null |-> FALSE, items |-> <<<<"d">>, <<"c">>>>]}

\* the scores _best_fuzzy_score can give the normalized strings: rapidfuzz
\* is not part of the program, so every table of scores is considered
FuzzyScores == {40, 100}
NormNames == {Normalize(s) : s \in AliasStrings} \cup {<<>>}
FuzzyTables ==
    {f \in [NormNames -> FuzzyScores] : f[<<>>] = 40 /\ f[<<"a">>] = 40}

\* get_name_matcher().compare(entry_name, wikidata_label, aliases)
NameCompare(entry_name, wikidata_label, aliases, fuzzy) ==
    /\ last' = [NoLast EXCEPT
                   !.op = "name_compare",
                   !.match = [args |-> <<entry_name, wikidata_label, aliases,
                                         fuzzy>>,
                              result |-> name_compare(entry_name,
                                                      wikidata_label, aliases,
                                                      fuzzy)]]
    /\ UNCHANGED <<projects, entries, tasks, candidates, reqs>>

NextName ==
    \E entry_name \in EntryNames, wikidata_label \in Labels,
       aliases \in AliasLists, fuzzy \in FuzzyTables :
        NameCompare(entry_name, wikidata_label, aliases, fuzzy)

SpecName == Init /\ [][NextName]_vars

----------------------------------------------------------------------------
(* Candidate creation, accept and reject alone *)

NextDecide ==
    \/ \E t \in TaskIds, inputs \in InputSeqs : CreateCandidates(t, inputs)
    \/ \E t \in TaskIds, c \in CandIds : AcceptCandidate(t, c)
    \/ \E c \in CandIds : RejectCandidate(c)

SpecDecide == InitReview /\ [][NextDecide]_vars

----------------------------------------------------------------------------
(* Claims on the sequential candidate handlers (SpecReview) *)

\* C1: accept_candidate on a candidate whose committed status is 'suggested'
\* succeeds and, in the one step of its commit, sets candidate.status to
\* accepted and the task's status to reviewed, accepted_wikidata_id to the
\* candidate's wikidata_id and accepted_candidate_id to the candidate's id;
\* and no step changes a task's accepted_candidate_id to a candidate that
\* is not turned from suggested to accepted in that same step.
C1_AcceptAtomic ==
    [][ /\ (last'.op = "accept" /\ candidates[last'.c].status = "suggested")
            => /\ last'.outcome = "ok"
               /\ candidates'[last'.c].status = "accepted"
               /\ tasks'[last'.t].status = "reviewed"
               /\ tasks'[last'.t].accepted_wikidata_id
                      = candidates[last'.c].wikidata_id
               /\ tasks'[last'.t].accepted_candidate_id = last'.c
        /\ \A t \in TaskIds :
              (/\ tasks'[t].accepted_candidate_id # tasks[t].accepted_candidate_id
               /\ tasks'[t].accepted_candidate_id # NULL)
              => /\ candidates[tasks'[t].accepted_candidate_id].status = "suggested"
                 /\ candidates'[tasks'[t].accepted_candidate_id].status = "accepted"
      ]_vars

C1_Witness ==
    /\ last.op = "accept" /\ last.outcome = "ok"
    /\ candidates[last.c].status = "accepted"
    /\ tasks[last.t].status = "reviewed"
    /\ tasks[last.t].accepted_candidate_id = last.c
    /\ tasks[last.t].accepted_wikidata_id = 2

\* C2: accept_candidate and reject_candidate on a candidate whose status is
\* not 'suggested' end in a validation error and change no candidate and no
\* task (status, reviewed_at, accepted_wikidata_id, accepted_candidate_id).
C2_ReviewOfDecidedRejected ==
    [][ (/\ last'.op \in {"accept", "reject"}
         /\ candidates[last'.c].status # "suggested")
        => /\ last'.outcome = "validation_error"
           /\ candidates' = candidates
           /\ tasks' = tasks
      ]_vars

C2_Witness ==
    /\ last.op = "accept" /\ last.outcome = "validation_error"
    /\ candidates[last.c].status = "rejected"
    /\ tasks[last.t].status = "new"

\* C3: once a candidate's status is accepted or rejected, no operation of
\* the candidate interface (accept, reject, PATCH, bulk update) changes it.
C3_DecidedIsTerminal ==
    [][ \A c \in CandIds :
            candidates[c].status \in {"accepted", "rejected"}
            => candidates'[c].status = candidates[c].status
      ]_vars

\* C4: for every task, candidate_count is the number of its non-deleted
\* candidates and highest_score the maximum of their scores (null if none),
\* after any sequence of candidate creations and soft-deletions.
C4_TaskStatsMatchCandidates ==
    \A t \in TaskIds :
        LET live == {c \in CandIds : candidates[c].task_id = t
                                     /\ candidates[c].deleted_at = NULL}
        IN /\ tasks[t].candidate_count = Cardinality(live)
           /\ tasks[t].highest_score =
                 IF live = {} THEN NULL
                 ELSE CHOOSE s \in {candidates[c].score : c \in live} :
                         \A c \in live : candidates[c].score <= s

----------------------------------------------------------------------------
(* Claims on start_project (SpecStart) *)

LiveEntriesOf(p) ==
    {e \in EntryIds : entries[e].dataset_id = ProjectDataset(p)
                      /\ entries[e].deleted_at = NULL}

TaskRowsOf(rows, p) == {i \in 1..Len(rows) : rows[i].project_id = p}

C10_EmptySelectionRejected ==
    [][ (/\ last'.op = "start"
         /\ (last'.all \/ last'.sel # {})
         /\ (IF last'.all THEN LiveEntriesOf(last'.p)
             ELSE last'.sel \cap LiveEntriesOf(last'.p)) = {})
        => /\ last'.outcome = "validation_error"
           /\ tasks' = tasks
           /\ projects' = projects
      ]_vars

C10_Witness ==
    /\ last.op = "start" /\ ~last.all /\ last.sel = {NumEntries}
    /\ last.p = 1
    /\ last.outcome = "validation_error"
    /\ projects[1].status = "draft"

----------------------------------------------------------------------------
(* Claims on concurrent requests *)

\* C5: of two interleaved review requests on one suggested candidate, a
\* request commits its decision only if the committed candidate is still
\* suggested at that moment, and no reviewed task ever points at a rejected
\* candidate.
C5_RevalidatedAtCommit ==
    [][/\ (last'.op \in {"accept", "reject"} /\ last'.outcome = "ok")
            => candidates[last'.c].status = "suggested"
       /\ \A t \in 1..Len(tasks') :
            (tasks'[t].status = "reviewed"
                /\ tasks'[t].accepted_candidate_id # NULL)
            => candidates'[tasks'[t].accepted_candidate_id].status
                  # "rejected"]_vars

\* C6: once every interleaved candidate creation has finished, each live
\* task's candidate_count and highest_score equal the count and the maximum
\* score of its live candidates.
C6_StatsAfterConcurrentCreate ==
    (\A r \in ReqIds : reqs[r].pc = "idle")
    => \A t \in TaskIds :
          Live(tasks[t])
          => /\ tasks[t].candidate_count = CountStmt(candidates, t)
             /\ tasks[t].highest_score = MaxStmt(candidates, t)

\* C7: whatever the interleaving of start_project and create_for_project
\* requests, no two live tasks share a project and a dataset entry.
C7_OneLiveTaskPerPair ==
    \A i \in TaskIds, j \in TaskIds :
        (i # j /\ Live(tasks[i]) /\ Live(tasks[j]))
        => ~(tasks[i].project_id = tasks[j].project_id
             /\ tasks[i].dataset_entry_id = tasks[j].dataset_entry_id)

\* Two start_project requests read the existing tasks before either
\* committed, and the second commit was refused by the unique constraint.
C7_Witness ==
    /\ last.op = "start"
    /\ last.outcome = "integrity_error"
    /\ \E t \in TaskIds : tasks[t].project_id = last.p /\ Live(tasks[t])

----------------------------------------------------------------------------
(* Claims on rerun_tasks (SpecRerun) *)

\* C11: rerun_tasks with a named criterion and no task ids resets exactly
\* the live tasks of the project that satisfy the criterion (status new,
\* accepted ids and error message cleared), returns their number and leaves
\* every other task unchanged in all fields.
C11_RerunResetsExactlyMatching ==
    [][(last'.op = "rerun" /\ last'.cs = {}
           /\ last'.patch \in {"failed", "no_candidates", "no_accepted"})
       => LET crit == last'.patch
              hit == {t \in TaskIds :
                        /\ tasks[t].project_id = last'.p
                        /\ tasks[t].deleted_at = NULL
                        /\ CASE crit = "failed" -> tasks[t].status = "failed"
                             [] crit = "no_candidates" ->
                                    tasks[t].status = "no_candidates_found"
                             [] OTHER ->
                                    /\ tasks[t].accepted_wikidata_id = NULL
                                    /\ tasks[t].status \in
                                          {"awaiting_review", "reviewed"}}
          IN /\ last'.outcome = "ok"
             /\ last'.ret = Cardinality(hit)
             /\ Len(tasks') = Len(tasks)
             /\ \A t \in TaskIds :
                   IF t \in hit
                   THEN tasks'[t] =
                          [tasks[t] EXCEPT !.status = "new",
                                           !.accepted_wikidata_id = NULL,
                                           !.accepted_candidate_id = NULL,
                                           !.error_message = NULL]
                   ELSE tasks'[t] = tasks[t]]_vars

\* A no_accepted rerun has just reset one task of the project while a
\* reviewed task with an accepted id, a task of the other project and a
\* soft-deleted task were passed over.
C11_Witness ==
    /\ last.op = "rerun" /\ last.patch = "no_accepted" /\ last.cs = {}
    /\ last.p = 1 /\ last.ret = 1
    /\ \E t \in TaskIds : tasks[t].project_id = 1 /\ tasks[t].status = "new"
    /\ \E t \in TaskIds : /\ tasks[t].project_id = 1
                          /\ tasks[t].status \in {"reviewed", "awaiting_review"}
                          /\ tasks[t].accepted_wikidata_id # NULL
    /\ \E t \in TaskIds : /\ tasks[t].project_id = 2
                          /\ tasks[t].status = "reviewed"

\* C12 as stated: rerun_tasks raises a validation error and modifies no task
\* when neither selector is given, when both are given, and when the
\* criterion is not a known one, with or without task ids.
C12_ExactlyOneRerunSelector ==
    [][(last'.op = "rerun"
           /\ \/ (last'.patch = "" /\ last'.cs = {})
              \/ (last'.patch # "" /\ last'.cs # {})
              \/ (last'.patch # ""
                     /\ last'.patch \notin
                           {"failed", "no_candidates", "no_accepted"}))
       => (last'.outcome = "validation_error" /\ tasks' = tasks)]_vars

\* C12 amended: rerun_tasks raises a validation error and modifies no task
\* exactly when no task id is given and the criterion is missing or unknown;
\* when task ids are given the criterion is not looked at: the call succeeds
\* and resets exactly the live tasks of the project among the ids.
C12_RerunSelectorChecked ==
    [][last'.op = "rerun"
       => IF last'.cs = {}
          THEN (last'.patch \notin {"failed", "no_candidates", "no_accepted"})
               <=> (last'.outcome = "validation_error" /\ tasks' = tasks)
          ELSE /\ last'.outcome = "ok"
               /\ Len(tasks') = Len(tasks)
               /\ \A t \in TaskIds :
                     IF /\ t \in last'.cs
                        /\ tasks[t].project_id = last'.p
                        /\ tasks[t].deleted_at = NULL
                     THEN tasks'[t].status = "new"
                     ELSE tasks'[t] = tasks[t]]_vars

\* A rerun given both an unknown criterion and task ids has succeeded and
\* reset a task.
C12_Witness ==
    /\ last.op = "rerun" /\ last.patch = "bogus" /\ last.cs # {}
    /\ last.outcome = "ok" /\ last.ret > 0

----------------------------------------------------------------------------
(* Claims on the bulk candidate update (SpecReview) *)

\* C13: a bulk candidate update over a list of ids fails with not-found and
\* changes no candidate if some id does not resolve to a live candidate;
\* if every id of the list resolves to a live candidate it succeeds, every
\* requested candidate carries the patch and no other candidate changes.
C13_BulkUpdateAllOrNothing ==
    [][last'.op = "bulk_update"
       => IF \E c \in last'.cs : ~(c \in CandIds /\ candidates[c].deleted_at = NULL)
          THEN last'.outcome = "not_found" /\ candidates' = candidates
          ELSE /\ last'.outcome = "ok"
               /\ Len(candidates') = Len(candidates)
               /\ \A c \in CandIds :
                     IF c \in last'.cs
                     THEN last'.patch # "unset"
                            => candidates'[c].status = last'.patch
                     ELSE candidates'[c] = candidates[c]]_vars

----------------------------------------------------------------------------
(* Claims on get_stats (SpecProgress, SpecAvg); values in tenths *)

\* C14: get_stats returns progress_percent = 100 * (live reviewed tasks +
\* live skipped tasks) / live tasks of the project rounded to one decimal,
\* and 0.0 when the project has no live task; no other status counts.
C14_ProgressPercent ==
    last.op = "stats"
    => LET mine == {t \in TaskIds : tasks[t].project_id = last.p
                                    /\ tasks[t].deleted_at = NULL}
           done == {t \in mine : tasks[t].status = "reviewed"
                                 \/ tasks[t].status = "skipped"}
           total == Cardinality(mine)
           x == last.stats.progress_percent
           d == x * total - 1000 * Cardinality(done)
       IN IF total = 0 THEN x = 0
          ELSE /\ x \in 0..1000
               /\ 2 * d <= total
               /\ -2 * d <= total

\* Statistics were read for a project with three live tasks, one of them
\* skipped or reviewed and another auto_confirmed: 33.3 percent.
C14_Witness ==
    /\ last.op = "stats"
    /\ last.stats.total_tasks = 3
    /\ last.stats.progress_percent = 333
    /\ \E t \in TaskIds : /\ tasks[t].project_id = last.p
                          /\ tasks[t].deleted_at = NULL
                          /\ tasks[t].status = "auto_confirmed"

\* C15: get_stats returns avg_score = null if and only if the project has no
\* live accepted candidate on a live task; otherwise avg_score is the mean of
\* the scores of those candidates, whatever the scores.
C15_AvgScoreNullIffNoAccepted ==
    last.op = "stats"
    => LET mine == {t \in TaskIds : tasks[t].project_id = last.p
                                    /\ tasks[t].deleted_at = NULL}
           acc == {c \in CandIds : /\ candidates[c].task_id \in mine
                                   /\ candidates[c].deleted_at = NULL
                                   /\ candidates[c].status = "accepted"}
           n == Cardinality(acc)
           d == last.stats.avg_score * n - 10 * SumScores(candidates, acc)
       IN /\ (last.stats.avg_score = NULL) <=> (acc = {})
          /\ acc # {} => (2 * d <= n /\ -2 * d <= n)

----------------------------------------------------------------------------
(* Claims on the project soft delete (SpecDelete) *)

----------------------------------------------------------------------------
(* Claims on DateMatcher.compare (SpecDate) *)

\* C19: for two dates a and b with d = |a - b| in days, compare returns the
\* exact score if a = b; else max(exact score - 5 d, year-only score) as a
\* close match if d is within the tolerance, also across a year boundary;
\* else the year-only score if both lie in one calendar year; else 0.  With
\* the default settings a difference of one day scores 95.
C19_DateScore ==
    (last.op = "date_compare"
        /\ last.match.args[1].kind = "date" /\ last.match.args[2].kind = "date")
    => LET a == last.match.args[1]
           b == last.match.args[2]
           tol == last.match.args[3]
           r == last.match.result
           n == (a.y - b.y) * 365 + a.doy - b.doy
           d == IF n < 0 THEN -n ELSE n
           fall == DateExactScore - 5 * d
       IN /\ r.outcome = "ok"
          /\ IF a = b THEN r.score = DateExactScore /\ r.text = "exact"
             ELSE IF d <= tol
             THEN /\ r.text = "close"
                  /\ r.diff_days = d
                  /\ r.score = IF fall >= DateYearOnlyScore THEN fall
                               ELSE DateYearOnlyScore
             ELSE IF a.y = b.y
             THEN r.score = DateYearOnlyScore /\ r.text = "year_only"
             ELSE r.score = 0 /\ r.text = "none"
          /\ (d = 1 /\ tol = 3) => r.score = 95

\* The last day of a year was compared with the first day of the next under
\* the default tolerance: a close match of 95.
C19_Witness ==
    /\ last.op = "date_compare"
    /\ last.match.args[1].kind = "date" /\ last.match.args[2].kind = "date"
    /\ last.match.args[1].y # last.match.args[2].y
    /\ last.match.args[3] = 3
    /\ last.match.result.text = "close"
    /\ last.match.result.score = 95

\* C20: compare never raises: for every pair of values among None, a date, a
\* datetime, a parsable string, an unparsable string and the empty string
\* it returns a score, 0 with reason missing_date when a side is None and 0
\* with reason invalid_date_format when a side does not parse.
C20_DateCompareNeverRaises ==
    last.op = "date_compare"
    => LET a == last.match.args[1]
           b == last.match.args[2]
           r == last.match.result
           bad(v) == v.kind = "str" /\ v.form \in {"unparsable", "empty"}
       IN /\ r.outcome = "ok"
          /\ r.score \in 0..100
          /\ (a.kind = "none" \/ b.kind = "none")
                => (r.score = 0 /\ r.text = "missing_date")
          /\ (a.kind # "none" /\ b.kind # "none" /\ (bad(a) \/ bad(b)))
                => (r.score = 0 /\ r.text = "invalid_date_format")

----------------------------------------------------------------------------
(* Claims on ScoreCalculator.calculate (SpecScore) *)

\* C17: when calculate produces at least one MatchScore, total_score is the
\* weighted average of the scores rounded to the nearest integer with ties to
\* the even one (name 100 with weight 0.5 and date 80 with weight 0.3 give
\* 92), lies in 0..100, and is 0 when the weights sum to 0.
C17_TotalScore ==
    (last.op = "calculate" /\ last.match.result.outcome = "ok"
        /\ last.match.result.scores # <<>>)
    => LET r == last.match.result
           n == Len(r.scores)
           w1 == r.scores[1].weight
           s1 == r.scores[1].score
           w2 == IF n = 2 THEN r.scores[2].weight ELSE 0
           s2 == IF n = 2 THEN r.scores[2].score ELSE 0
           W == w1 + w2
           S == s1 * w1 + s2 * w2
           d == 2 * (r.total_score * W - S)
       IN /\ r.total_score \in 0..100
          /\ W = 0 => r.total_score = 0
          /\ W > 0 => /\ d <= W /\ -d <= W
                      /\ (d = W \/ -d = W) => r.total_score % 2 = 0
          /\ (n = 2 /\ s1 = 100 /\ w1 = 5 /\ s2 = 80 /\ w2 = 3)
                => r.total_score = 92

\* A name score of 100 and a year-only date score of 80 were combined under
\* the default weights: 92.5 became 92.
C17_Witness ==
    /\ last.op = "calculate"
    /\ Len(last.match.result.scores) = 2
    /\ last.match.result.scores[1] =
          [type |-> "name", score |-> 100, weight |-> 5]
    /\ last.match.result.scores[2] =
          [type |-> "date", score |-> 80, weight |-> 3]
    /\ last.match.result.total_score = 92

\* C18: confidence is 'none', with total_score 0 and no matched field,
\* exactly when no MatchScore was produced; otherwise 'high' from the
\* auto-accept threshold, from the high-confidence threshold 'high' with at
\* least two matched fields and 'medium' with fewer, 'medium' from the
\* low-confidence threshold, and 'low' below it.
C18_ConfidenceTier ==
    (last.op = "calculate" /\ last.match.result.outcome = "ok")
    => LET r == last.match.result
           t == r.total_score
           m == Len(r.matched_fields)
       IN IF r.scores = <<>>
          THEN r.confidence = "none" /\ t = 0 /\ m = 0
          ELSE r.confidence =
                  CASE t >= AutoAcceptThreshold -> "high"
                    [] t < AutoAcceptThreshold /\ t >= HighConfidenceThreshold
                          -> IF m >= 2 THEN "high" ELSE "medium"
                    [] t < HighConfidenceThreshold
                          /\ t >= LowConfidenceThreshold -> "medium"
                    [] OTHER -> "low"

\* A total of 92 with the name as the only matched field was rated medium.
C18_Witness ==
    /\ last.op = "calculate"
    /\ last.match.result.total_score = 92
    /\ last.match.result.matched_fields = <<"name">>
    /\ last.match.result.confidence = "medium"

----------------------------------------------------------------------------
(* Claims on ScoreCalculator.calculate over malformed entities (SpecExtract) *)

\* C21: calculate never raises on a malformed target entity: whatever the
\* structural mismatch along claims[P569][0].mainsnak.datavalue.value, the
\* birth date is treated as absent and a CompositeScore is returned.
C21_MalformedEntityIsAbsent ==
    last.op = "calculate_entity"
    => LET entity == last.match.args[4]
       IN /\ last.match.result.outcome = "ok"
          /\ entity \notin {WellFormed(Str("wikidata", 1951, 1))}
                => last.match.result =
                      calculate(last.match.args[1], last.match.args[2],
                                last.match.args[3], None, NameWeight,
                                DateWeight)

----------------------------------------------------------------------------
(* Claims on start_project with chunks (SpecChunk) *)

RECURSIVE SumSeq(_)
SumSeq(s) == IF s = <<>> THEN 0 ELSE Head(s) + SumSeq(Tail(s))

----------------------------------------------------------------------------
(* Claims on the project lifecycle (SpecLifecycle) *)

\* C23: every change of a project's status, by a PATCH with a status or by
\* start_project, follows one of the lifecycle transitions.
C23_StatusFollowsLifecycle ==
    [][\A p \in ProjectIds :
          projects'[p].status # projects[p].status
          => <<projects[p].status, projects'[p].status>> \in ProjectTransitions
      ]_vars

----------------------------------------------------------------------------
(* Claims on NameMatcher.compare (SpecName) *)

\* C24: compare returns score 0 with reason missing_name when the name or
\* the label is empty or absent; otherwise name_exact_score with
\* matched=exact exactly when the normalized name equals the normalized
\* label or any alias, wherever the alias stands in the list; otherwise the
\* maximum of the fuzzy scores of the label and the aliases, a tie keeping
\* the label or the earlier alias; the weight is always name_weight.
C24_NameCompare ==
    last.op = "name_compare"
    => LET entry_name == last.match.args[1]
           wikidata_label == last.match.args[2]
           aliases == IF last.match.args[3].null THEN <<>>
                      ELSE last.match.args[3].items
           fuzzy == last.match.args[4]
           r == last.match.result
           name == Normalize(entry_name.chars)
           \* targets: the label at position 0, alias i at position i
           Target(i) == IF i = 0 THEN Normalize(wikidata_label.chars)
                        ELSE Normalize(aliases[i])
           positions == 0..Len(aliases)
           equal == {i \in positions : Target(i) = name}
           top == CHOOSE i \in positions :
                     /\ \A j \in positions : fuzzy[Target(j)] <= fuzzy[Target(i)]
                     /\ \A j \in positions :
                           fuzzy[Target(j)] = fuzzy[Target(i)] => i <= j
       IN /\ r.weight = NameWeight
          /\ IF entry_name.null \/ entry_name.chars = <<>>
                \/ wikidata_label.null \/ wikidata_label.chars = <<>>
             THEN r.score = 0 /\ r.matched = "missing_name"
             ELSE /\ (r.matched = "exact") = (equal # {})
                  /\ r.matched = "exact" => r.score = NameExactScore
                  /\ r.matched # "exact"
                        => /\ r.matched = "fuzzy"
                           /\ r.score = fuzzy[Target(top)]
                           /\ r.against = IF top = 0 THEN "label" ELSE "alias"
                           /\ top # 0 => r.alias = aliases[top]

\* The name equals the second alias only, and the first alias scores higher
\* than the label: the result is still the exact score against the alias.
C24_Witness ==
    /\ last.op = "name_compare"
    /\ last.match.args[1] = StrOf(<<" ", "A">>)
    /\ last.match.args[2] = StrOf(<<"b">>)
    /\ last.match.args[3] = [null |-> FALSE, items |-> <<<<"c">>, <<"a", " ">>>>]
    /\ last.match.args[4][<<"c">>] > last.match.args[4][<<"b">>]
    /\ last.match.result = NameResult(NameExactScore, "exact", "alias", <<"a", " ">>)

----------------------------------------------------------------------------
(* Claims on the accepted candidate of a task *)

\* the live candidates of task t with status accepted
AcceptedOf(t) ==
    {c \in CandIds : candidates[c].task_id = t /\ Live(candidates[c])
                     /\ candidates[c].status = "accepted"}

\* C25: each task has at most one live candidate with status accepted.
C25_AtMostOneAccepted ==
    \A t \in TaskIds : Cardinality(AcceptedOf(t)) <= 1

\* C26: whenever a task's accepted_candidate_id is set, it refers to a live
\* candidate of that task whose status is accepted and whose wikidata_id is
\* the task's accepted_wikidata_id.
C26_AcceptedPointerValid ==
    \A t \in TaskIds :
        tasks[t].accepted_candidate_id # NULL
        => /\ tasks[t].accepted_candidate_id \in AcceptedOf(t)
           /\ candidates[tasks[t].accepted_candidate_id].wikidata_id =
                 tasks[t].accepted_wikidata_id

\* C27: a task with a live accepted candidate has status reviewed and a
\* non-null accepted_wikidata_id.
C27_AcceptedImpliesReviewed ==
    \A t \in TaskIds :
        AcceptedOf(t) # {}
        => tasks[t].status = "reviewed" /\ tasks[t].accepted_wikidata_id # NULL

----------------------------------------------------------------------------
(* Claims on soft deletion (SpecDelete) *)

\* C28: every live candidate belongs to a live task and every live task
\* belongs to a live project.
C28_LiveUnderLiveParent ==
    /\ \A c \in CandIds :
          Live(candidates[c]) => Live(tasks[candidates[c].task_id])
    /\ \A t \in TaskIds :
          Live(tasks[t]) => Live(projects[tasks[t].project_id])

----------------------------------------------------------------------------
(* Claims on start_project after task deletions (SpecChunk) *)

\* C29: start_project never fails on the uniqueness constraint of
\* (project_id, dataset_entry_id): whatever happened before, the soft
\* deletion of a task of the project included, a call with a non-empty
\* selection of live entries completes and returns a count.
C29_StartNeverHitsUnique ==
    (last.op = "start"
        /\ EntryStmt(entries, ProjectDataset(last.p), last.sel, last.all) # {})
    => last.outcome = "ok"

\* C30: the project's denormalized task_count equals the number of live
\* tasks of the project.
C30_TaskCountMatchesTasks ==
    \A p \in ProjectIds :
        projects[p].task_count =
            Cardinality({t \in TaskIds : tasks[t].project_id = p
                                         /\ Live(tasks[t])})

====
